---------------------------- MODULE Spec2Model ----------------------------
(***************************************************************************)
(* Model of the capture layer of metrics-sdks:                             *)
(*   - src/index.js: patchResponse, metrics() and its per-transaction      *)
(*     closures send/cleanup (the delivery queue and the listeners);       *)
(*   - src/packages/node/src/lib/metrics-node/process-request.ts:          *)
(*     processRequest.                                                     *)
(* Five specifications share the module: Spec (delivery queue and          *)
(* terminal signals), SpecPatch (the patched write/end of one response),   *)
(* SpecRequest (processRequest as a function of its inputs),               *)
(* SpecInstances (two metrics() instances side by side) and SpecSetup      *)
(* (the calls of metrics() and magicLink() with their arguments).          *)
(***************************************************************************)
EXTENDS Integers, Sequences, FiniteSets, TLC

VARIABLES
    \* ---- metrics(): one capture-layer instance (src/index.js 33-77)
    bufferLength,   \* const bufferLength (line 37)
    queue,          \* let queue = [] (line 39): records, one per finished transaction
    patched,        \* per transaction: times patchResponse(res) ran for it (line 43)
    listeners,      \* per transaction: the middleware's listeners still registered on res
    first,          \* per transaction: the first terminal signal emitted (history)
    posts,          \* every POST started, in order: its body and its outcome (history)
    enqLog,         \* every record ever pushed, in push order (history)
    \* ---- patchResponse(res): one response object (src/index.js 14-31)
    wrappers,       \* times patchResponse has replaced res.write and res.end
    resBody,        \* res._body
    ended,          \* res.end has been called
    appCalls,       \* calls the application made on res.write / res.end (history)
    origCalls,      \* calls the original write / end received (history)
    origRet,        \* what the original returned for the latest call
    patchedRet,     \* what res.write / res.end returned to the application for it
    \* ---- processRequest(req, requestBody, options) (process-request.ts 31-125)
    reqHeaders,     \* req.headers
    headersIn,      \* req.headers as they were when processRequest was called (history)
    requestBody,    \* the requestBody argument
    options,        \* the options argument
    outcome,        \* what the call did: not called yet, returned a Request, or threw
    \* ---- two capture-layer instances, from two metrics() calls (src/index.js 33-77)
    instLen,        \* per instance: its bufferLength (line 37)
    instQueue,      \* per instance: the queue of its closure (line 39)
    instPosts,      \* per instance: the POSTs it started (history)
    route,          \* per transaction: the instance whose middleware it passed, 0 before
    instListeners,  \* per transaction: that middleware's listeners still registered on res
    \* ---- the calls of metrics() and magicLink() (src/index.js 33-41, 100-116)
    mw,             \* metrics(): not called, returned a middleware, or threw
    mArgs,          \* the apiKey and group it was called with (history)
    ml,             \* magicLink(): not called, rejected, awaiting the fetch, or resolved
    mlArgs,         \* the apiKey, user and redirectPath it was called with (history)
    fetches,        \* getReadmeData calls started
    mlUrl           \* the URL magicLink resolved with

qvars == <<bufferLength, queue, patched, listeners, first, posts, enqLog>>

pvars == <<wrappers, resBody, ended, appCalls, origCalls, origRet, patchedRet>>

rvars == <<reqHeaders, headersIn, requestBody, options, outcome>>

ivars == <<instLen, instQueue, instPosts, route, instListeners>>

svars == <<mw, mArgs, ml, mlArgs, fetches, mlUrl>>

vars == <<qvars, pvars, rvars, ivars, svars>>

-----------------------------------------------------------------------------
\* Bounds of the model.
NumTxn == 4        \* transactions (request/response pairs) passing the middleware
MaxBuf == 2        \* largest flush threshold tried
MaxPatch == 2      \* times one response passes patchResponse
MaxWrites == 2     \* res.write calls before res.end
SetupTxn == 2      \* transactions through the middleware a metrics() call returned
NumRouted == 3     \* transactions shared out between two instances

Txn == 1..NumTxn
Signals == {"finish", "error", "close"}

Range(s) == {s[i] : i \in 1..Len(s)}

-----------------------------------------------------------------------------
\* Mutant of Push: the record is put at the front (unshift).
PushFront(q, t) == <<t>> \o q

\* send(), line 49: queue.push(constructPayload(req, res, ...)); the record of
\* transaction t is identified with t.
Push(q, t) == Append(q, t)

\* Mutant of FlushNeeded: the test written with > instead of >=.
FlushNeededStrict(q, n) == Len(q) > n

\* send(), line 50: the flush test.
FlushNeeded(q, n) == Len(q) >= n

\* send(), lines 51-55: request.post(..., {json: queue}); the body is the array
\* as it stands when the POST is started (r2 serialises opts.json in the
\* microtask that follows the call).
NewPost(q) == [body |-> q, status |-> "inflight"]

\* lines 56-58: .response.then(() => { queue = []; })
QueueAfterResponse(q) == <<>>

\* Mutant of Cleanup: the removeListener calls miss the registered functions.
CleanupNothing(ls) == ls

\* Mutant of Cleanup: removeListener('finish', send) is forgotten.
CleanupKeepsFinish(ls) == ls \ {"error", "close"}

\* cleanup(), lines 64-68: the three removeListener calls.
Cleanup(ls) == ls \ {"finish", "error", "close"}

\* lines 71-73: res.once('finish', send); res.once('error', cleanup);
\* res.once('close', cleanup).
Registered(ls) == ls \cup {"finish", "error", "close"}

\* res.once (lines 71-73): the emitter removes a once-listener before it calls it.
OnceFired(ls, e) == ls \ {e}

Note(t, e) == first' = [first EXCEPT ![t] = IF @ = "none" THEN e ELSE @]

\* The middleware (lines 41-76) runs once for transaction t.  Transactions are
\* numbered in the order in which their requests reach the middleware.
Middleware(t) ==
    /\ patched[t] = 0
    /\ \A u \in Txn : u < t => patched[u] > 0
    /\ patched' = [patched EXCEPT ![t] = @ + 1]
    /\ listeners' = [listeners EXCEPT ![t] = Registered(@)]
    /\ UNCHANGED <<bufferLength, queue, first, posts, enqLog, pvars, rvars, ivars, svars>>

\* res emits 'finish' while send is registered: send() runs (lines 45-62).
Finish(t) ==
    /\ patched[t] > 0
    /\ "finish" \in listeners[t]
    /\ Note(t, "finish")
    /\ queue' = Push(queue, t)
    /\ enqLog' = Append(enqLog, t)
    /\ posts' = IF FlushNeeded(queue', bufferLength)
                THEN Append(posts, NewPost(queue'))
                ELSE posts
    /\ listeners' = [listeners EXCEPT ![t] = Cleanup(OnceFired(@, "finish"))]
    /\ UNCHANGED <<bufferLength, patched, pvars, rvars, ivars, svars>>

\* res emits 'error' or 'close' while cleanup is registered for it (lines 64-68).
Abort(t, e) ==
    /\ patched[t] > 0
    /\ e \in {"error", "close"}
    /\ e \in listeners[t]
    /\ Note(t, e)
    /\ listeners' = [listeners EXCEPT ![t] = Cleanup(OnceFired(@, e))]
    /\ UNCHANGED <<bufferLength, queue, patched, posts, enqLog, pvars, rvars, ivars, svars>>

\* res emits a signal for which the middleware has no listener left: none of
\* send and cleanup runs, and nothing of the capture layer changes.
LateSignal(t, e) ==
    /\ patched[t] > 0
    /\ e \notin listeners[t]
    /\ UNCHANGED <<bufferLength, queue, patched, listeners, first, posts, enqLog, pvars, rvars, ivars, svars>>

\* The response of POST p arrives: the then-callback runs (lines 56-58).
PostResponse(p) ==
    /\ p \in 1..Len(posts)
    /\ posts[p].status = "inflight"
    /\ posts' = [posts EXCEPT ![p].status = "ok"]
    /\ queue' = QueueAfterResponse(queue)
    /\ UNCHANGED <<bufferLength, patched, listeners, first, enqLog, pvars, rvars, ivars, svars>>

\* POST p is rejected (network failure): no callback is registered for it.
PostFailure(p) ==
    /\ p \in 1..Len(posts)
    /\ posts[p].status = "inflight"
    /\ posts' = [posts EXCEPT ![p].status = "failed"]
    /\ UNCHANGED <<bufferLength, queue, patched, listeners, first, enqLog, pvars, rvars, ivars, svars>>

\* The instances of SpecInstances: two metrics() calls, one closure each.
Inst == {1, 2}
RTxn == 1..NumRouted

\* No second instance in use (SpecInstances).
InstancesIdle ==
    /\ instLen = [i \in Inst |-> 1]
    /\ instQueue = [i \in Inst |-> <<>>]
    /\ instPosts = [i \in Inst |-> <<>>]
    /\ route = [t \in RTxn |-> 0]
    /\ instListeners = [t \in RTxn |-> {}]

\* No argument, and no call made yet.
NoArgs == [apiKey |-> "undefined", group |-> "undefined", user |-> "undefined",
           redirectPath |-> <<>>]

\* metrics(apiKey, group) has returned its middleware; magicLink is not in use.
SetupDone ==
    /\ mw = "returned"
    /\ mArgs = [NoArgs EXCEPT !.apiKey = "key", !.group = "fn"]
    /\ ml = "none"
    /\ mlArgs = NoArgs
    /\ fetches = 0
    /\ mlUrl = <<>>

\* No call of processRequest (SpecRequest).
RequestIdle ==
    /\ reqHeaders = <<>>
    /\ headersIn = <<>>
    /\ requestBody = [kind |-> "undefined", text |-> "", obj |-> <<>>]
    /\ options = <<>>
    /\ outcome = [state |-> "idle"]

\* The response of SpecPatch, untouched.
PatchIdle ==
    /\ wrappers = 0
    /\ resBody = <<>>
    /\ ended = FALSE
    /\ appCalls = <<>>
    /\ origCalls = <<>>
    /\ origRet = "none"
    /\ patchedRet = "none"

Init ==
    /\ PatchIdle
    /\ RequestIdle
    /\ InstancesIdle
    /\ SetupDone
    /\ bufferLength \in 1..MaxBuf
    /\ queue = <<>>
    /\ patched = [t \in Txn |-> 0]
    /\ listeners = [t \in Txn |-> {}]
    /\ first = [t \in Txn |-> "none"]
    /\ posts = <<>>
    /\ enqLog = <<>>

Next ==
    \/ \E t \in Txn : Middleware(t)
    \/ \E t \in Txn : Finish(t)
    \/ \E t \in Txn, e \in Signals : Abort(t, e)
    \/ \E t \in Txn, e \in Signals : LateSignal(t, e)
    \/ \E p \in 1..NumTxn : PostResponse(p)
    \/ \E p \in 1..NumTxn : PostFailure(p)

Spec == Init /\ [][Next]_vars

-----------------------------------------------------------------------------
\* patchResponse (src/index.js 14-31) on one response object.

\* The capture-layer instance of Spec, untouched.
QueueIdle ==
    /\ bufferLength = 1
    /\ queue = <<>>
    /\ patched = [t \in Txn |-> 0]
    /\ listeners = [t \in Txn |-> {}]
    /\ first = [t \in Txn |-> "none"]
    /\ posts = <<>>
    /\ enqLog = <<>>

\* Arguments of write/end: a chunk is a string (a sequence of characters) or
\* is not given; encoding and callback are given or not.
Str(text) == [kind |-> "string", text |-> text]
Undefined == [kind |-> "undefined", text |-> <<>>]
Chunks == {Str(<<>>), Str(<<"a">>), Str(<<"b">>)}
Encodings == {"utf8", "undefined"}
Callbacks == {"cb", "undefined"}
\* What the original write returns (false: the buffer is full) and what the
\* original end returns.
WriteReturns == {"true", "false"}
EndReturns == {"res"}

\* JavaScript truthiness of a chunk, as tested by if (chunk), line 28.
Truthy(c) == c.kind = "string" /\ c.text # <<>>

\* JavaScript string conversion of the right-hand side of res._body += chunk.
ToText(c) == IF c.kind = "undefined" THEN <<"undefined">> ELSE c.text

\* line 21: res._body += chunk
WriteBody(body, chunk) == body \o ToText(chunk)

\* Mutant of EndBody: the if (chunk) guard is missing.
EndBodyAlways(body, chunk) == body \o ToText(chunk)

\* line 28: if (chunk) res._body += chunk
EndBody(body, chunk) == IF Truthy(chunk) THEN body \o ToText(chunk) ELSE body

\* lines 22 and 29: write.call(res, chunk, encoding, cb), end.call(res, chunk,
\* encoding, cb): what the wrapper hands to the function it replaced.
Forward(c) == [op |-> c.op, chunk |-> c.chunk, encoding |-> c.encoding, cb |-> c.cb]

\* lines 20-23 and 25-30: the arrow functions have a block body without a
\* return statement, so the value of write.call / end.call is discarded.
PatchedReturn(r) == "undefined"

\* A call through k nested wrappers (patchResponse applied k times to the same
\* res): each wrapper appends to res._body, then calls the one it replaced.
RECURSIVE BodyThrough(_, _, _)
BodyThrough(k, body, c) ==
    IF k = 0 THEN body
    ELSE BodyThrough(k - 1,
                     IF c.op = "write" THEN WriteBody(body, c.chunk)
                                       ELSE EndBody(body, c.chunk),
                     c)

RECURSIVE ArgsThrough(_, _)
ArgsThrough(k, c) == IF k = 0 THEN c ELSE ArgsThrough(k - 1, Forward(c))

RECURSIVE ReturnThrough(_, _)
ReturnThrough(k, r) == IF k = 0 THEN r ELSE PatchedReturn(ReturnThrough(k - 1, r))

Call(c, r) ==
    /\ appCalls' = Append(appCalls, c)
    /\ resBody' = BodyThrough(wrappers, resBody, c)
    /\ origCalls' = Append(origCalls, ArgsThrough(wrappers, c))
    /\ origRet' = r
    /\ patchedRet' = ReturnThrough(wrappers, r)

\* patchResponse(res), lines 14-31, before the application writes.
PatchResponse ==
    /\ wrappers < MaxPatch
    /\ appCalls = <<>>
    /\ wrappers' = wrappers + 1
    /\ resBody' = <<>>
    /\ UNCHANGED <<ended, appCalls, origCalls, origRet, patchedRet, qvars, rvars, ivars, svars>>

\* The application calls res.write(chunk, encoding, cb); the original returns r.
ResWrite(chunk, encoding, cb, r) ==
    /\ ~ ended
    /\ Len(appCalls) < MaxWrites
    /\ Call([op |-> "write", chunk |-> chunk, encoding |-> encoding, cb |-> cb], r)
    /\ UNCHANGED <<wrappers, ended, qvars, rvars, ivars, svars>>

\* The application calls res.end(chunk, encoding, cb), the chunk being optional.
ResEnd(chunk, encoding, cb, r) ==
    /\ ~ ended
    /\ Call([op |-> "end", chunk |-> chunk, encoding |-> encoding, cb |-> cb], r)
    /\ ended' = TRUE
    /\ UNCHANGED <<wrappers, qvars, rvars, ivars, svars>>

InitPatch == QueueIdle /\ PatchIdle /\ RequestIdle /\ InstancesIdle /\ SetupDone

NextPatch ==
    \/ PatchResponse
    \/ \E c \in Chunks, e \in Encodings, cb \in Callbacks, r \in WriteReturns :
          ResWrite(c, e, cb, r)
    \/ \E c \in Chunks \cup {Undefined}, e \in Encodings, cb \in Callbacks,
          r \in EndReturns :
          ResEnd(c, e, cb, r)

SpecPatch == InitPatch /\ [][NextPatch]_vars

-----------------------------------------------------------------------------
\* processRequest (process-request.ts 31-125).  The URL, method and protocol
\* fields of the record (lines 36-37, 90, 96-108) are left out.

\* A header value or a field of a body object: its text, or the masked form
\* of that text.
Val(text) == [text |-> text, masked |-> FALSE]

\* ---- inputs
FormMime == "application/x-www-form-urlencoded"
CtInputs ==
    {FormMime, "application/json", "application/json; charset=utf-8",
     "application/vnd.api+json", "text/plain", "garbage"}
AuthText == "Bearer secret123"
\* The authorization header: not sent, sent with a credential, sent empty.
AuthInputs == {"absent", AuthText, ""}

\* req.headers with host, and content-type / authorization when given.
Headers(ct, auth) ==
    [h \in {"host"} \cup (IF ct = "absent" THEN {} ELSE {"content-type"})
                    \cup (IF auth = "absent" THEN {} ELSE {"authorization"})
       |-> Val(CASE h = "host" -> "example.com"
                 [] h = "content-type" -> ct
                 [] OTHER -> auth)]

FormText == "a=1&b=2"
JsonText == "{\"a\":\"1\",\"b\":\"2\"}"
ObjAB == [k \in {"a", "b"} |-> Val(IF k = "a" THEN "1" ELSE "2")]

\* requestBody: not given, a string, a mapping, or a mapping that contains
\* itself.
BUndefined == [kind |-> "undefined", text |-> "", obj |-> <<>>]
BString(t) == [kind |-> "string", text |-> t, obj |-> <<>>]
BObject(o) == [kind |-> "object", text |-> "", obj |-> o]
BCircular(o) == [kind |-> "circular", text |-> "", obj |-> o]
BodyInputs ==
    {BUndefined, BString(FormText), BString(JsonText), BString("hello"),
     BObject(ObjAB), BCircular(ObjAB)}

\* An option that holds a list of names, or is not given.
NotGiven == [given |-> FALSE, names |-> {}]
Given(names) == [given |-> TRUE, names |-> names]
ListOptions == {NotGiven, Given({"authorization"}), Given({"a", "host"})}
OptionInputs ==
    [denylist : ListOptions, blacklist : ListOptions,
     allowlist : ListOptions, whitelist : ListOptions]

\* ---- library calls
\* contentType.parse(string).type, line 44: throws on an empty string and on
\* a string that is no media type; drops the parameters.
ContentTypeParse(str) ==
    CASE str = "" -> [ok |-> FALSE, type |-> ""]
      [] str = "garbage" -> [ok |-> FALSE, type |-> ""]
      [] str = "application/json; charset=utf-8" ->
            [ok |-> TRUE, type |-> "application/json"]
      [] OTHER -> [ok |-> TRUE, type |-> str]

\* A string as text of the record: given as is, serialized from a mapping,
\* the placeholder, or undefined.
TextString(t) == [kind |-> "string", text |-> t, obj |-> <<>>]
TextJson(o) == [kind |-> "json", text |-> "", obj |-> o]
TextUndefined == [kind |-> "undefined", text |-> "", obj |-> <<>>]
\* line 77
TextPlaceholder ==
    [kind |-> "placeholder",
     text |-> "[ReadMe is unable to handle circular JSON. Please contact support if you have any questions.]",
     obj |-> <<>>]

\* JSON.stringify(reqBody), lines 69 and 75: throws on a circular structure,
\* gives undefined for undefined.
JsonStringify(b) ==
    CASE b.kind = "circular" -> [threw |-> TRUE, text |-> TextUndefined]
      [] b.kind = "object" -> [threw |-> FALSE, text |-> TextJson(b.obj)]
      [] b.kind = "string" -> [threw |-> FALSE, text |-> TextJson(<<b.text>>)]
      [] OTHER -> [threw |-> FALSE, text |-> TextUndefined]

\* ---- helpers of the repository that are not among the sources
\* isApplicationJson(mimeType): application/json or an application/...+json type.
IsApplicationJson(mime) == mime \in {"application/json", "application/vnd.api+json"}

\* querystring decoding of a form body.
QsParse(text) ==
    CASE text = FormText -> ObjAB
      [] text = "" -> <<>>
      [] OTHER -> [k \in {text} |-> Val("")]

\* parseRequestBody(requestBody, mimeType): a string body is decoded into a
\* mapping when the MIME type says how, and passed through otherwise.
ParseRequestBody(text, mime) ==
    IF mime = FormMime THEN BObject(QsParse(text))
    ELSE IF IsApplicationJson(mime) /\ text = JsonText THEN BObject(ObjAB)
    ELSE BString(text)

\* The marker that replaces a redacted value.
RedactValue(v) == [text |-> "[REDACTED]", masked |-> FALSE]

\* redactProperties(obj, denylist): the listed fields are redacted.
RedactProperties(obj, names) ==
    [k \in DOMAIN obj |-> IF k \in names THEN RedactValue(obj[k]) ELSE obj[k]]

\* redactOtherProperties(obj, allowlist): the fields not listed are redacted.
RedactOtherProperties(obj, names) ==
    [k \in DOMAIN obj |-> IF k \in names THEN obj[k] ELSE RedactValue(obj[k])]

\* mask(value): the masked form of a credential.
Mask(v) == [text |-> v.text, masked |-> TRUE]

\* objectToArray(obj): the list of {name, value} entries of a mapping.
ObjectToArray(obj) == {[name |-> k, value |-> obj[k]] : k \in DOMAIN obj}

\* ---- the steps of processRequest
\* line 39: options?.denylist || options?.blacklist (a list is truthy, also an
\* empty one)
Denylist(o) == IF o.denylist.given THEN o.denylist ELSE o.blacklist

\* line 40: options?.allowlist || options?.whitelist
Allowlist(o) == IF o.allowlist.given THEN o.allowlist ELSE o.whitelist

\* lines 42-45: the MIME type, '' when contentType.parse throws.
MimeType(headers) ==
    LET raw == IF "content-type" \in DOMAIN headers
               THEN headers["content-type"].text ELSE ""
        parsed == ContentTypeParse(raw)
    IN  IF parsed.ok THEN parsed.type ELSE ""

\* line 47
ReqBody(body, mime) ==
    IF body.kind = "string" THEN ParseRequestBody(body.text, mime) ELSE body

\* typeof reqBody === 'object'
IsObject(b) == b.kind \in {"object", "circular"}

\* lines 50-58, the body
RedactBody(b, o) ==
    IF Denylist(o).given
    THEN (IF IsObject(b)
          THEN [b EXCEPT !.obj = RedactProperties(b.obj, Denylist(o).names)]
          ELSE b)
    ELSE IF Allowlist(o).given
    THEN (IF IsObject(b)
          THEN [b EXCEPT !.obj = RedactOtherProperties(b.obj, Allowlist(o).names)]
          ELSE b)
    ELSE b

\* Mutant of RedactHeaders: the allowlist is applied also when a denylist is
\* configured.
RedactHeadersBoth(h, o) ==
    LET d == IF Denylist(o).given THEN RedactProperties(h, Denylist(o).names) ELSE h
    IN  IF Allowlist(o).given THEN RedactOtherProperties(d, Allowlist(o).names) ELSE d

\* lines 50-58, req.headers
RedactHeaders(h, o) ==
    IF Denylist(o).given THEN RedactProperties(h, Denylist(o).names)
    ELSE IF Allowlist(o).given THEN RedactOtherProperties(h, Allowlist(o).names)
    ELSE h

NoPostData ==
    [mimeType |-> "", hasText |-> FALSE, text |-> TextUndefined,
     hasParams |-> FALSE, params |-> {}]

\* line 69: no try around JSON.stringify.
JsonPostText(b) ==
    IF IsObject(b) THEN JsonStringify(b)
    ELSE [threw |-> FALSE,
          text |-> IF b.kind = "string" /\ b.text # "" THEN TextString(b.text)
                   ELSE TextString("")]

\* Mutant of OtherPostText: the catch block assigns nothing, stringBody stays ''.
OtherPostTextEmptyCatch(b) ==
    IF b.kind = "string" THEN TextString(b.text)
    ELSE IF JsonStringify(b).threw THEN TextString("")
    ELSE JsonStringify(b).text

\* lines 72-78: JSON.stringify inside try, the placeholder in catch.
OtherPostText(b) ==
    IF b.kind = "string" THEN TextString(b.text)
    ELSE IF JsonStringify(b).threw THEN TextPlaceholder
    ELSE JsonStringify(b).text

\* lines 60-85: postData, or the exception that escapes.
PostData(mime, b) ==
    IF mime = FormMime
    THEN [threw |-> FALSE, defined |-> TRUE,
          postData |-> [NoPostData EXCEPT
                          !.mimeType = mime, !.hasParams = TRUE,
                          !.params = ObjectToArray(
                              IF b.kind = "undefined" \/ (b.kind = "string" /\ b.text = "")
                              THEN <<>> ELSE b.obj)]]
    ELSE IF IsApplicationJson(mime)
    THEN [threw |-> JsonPostText(b).threw, defined |-> TRUE,
          postData |-> [NoPostData EXCEPT
                          !.mimeType = mime, !.hasText = TRUE,
                          !.text = JsonPostText(b).text]]
    ELSE IF mime # ""
    THEN [threw |-> FALSE, defined |-> TRUE,
          postData |-> [NoPostData EXCEPT
                          !.mimeType = mime, !.hasText = TRUE,
                          !.text = OtherPostText(b)]]
    ELSE [threw |-> FALSE, defined |-> FALSE, postData |-> NoPostData]

\* Mutant of MaskAuthorization: the header is masked only when redaction has
\* left it as it was.
MaskAuthorizationUnredacted(h) ==
    IF "authorization" \in DOMAIN h /\ h["authorization"].text = AuthText
    THEN [h EXCEPT !["authorization"] = Mask(@)]
    ELSE h

\* lines 92-94
MaskAuthorization(h) ==
    IF "authorization" \in DOMAIN h /\ h["authorization"].text # ""
    THEN [h EXCEPT !["authorization"] = Mask(@)]
    ELSE h

\* Mutant of RequestData: lines 118-122 are missing, the postData key is always
\* in the record.
RequestDataKeepsKey(h, pd) ==
    [headers |-> ObjectToArray(h),
     hasPostData |-> TRUE,
     postData |-> pd.postData]

\* lines 96-124: the record; the postData key is there only when defined.
RequestData(h, pd) ==
    [headers |-> ObjectToArray(h),
     hasPostData |-> pd.defined,
     postData |-> pd.postData]

NoRequest == [headers |-> {}, hasPostData |-> FALSE, postData |-> NoPostData]

\* processRequest(req, requestBody, options): what it returns or that it
\* throws, and req.headers as the call leaves it.
ProcessRequestCall(headers, body, o) ==
    LET mime == MimeType(headers)
        reqBody == RedactBody(ReqBody(body, mime), o)
        redacted == RedactHeaders(headers, o)
        pd == PostData(mime, reqBody)
    IN  IF pd.threw
        THEN [state |-> "threw", headers |-> redacted, request |-> NoRequest]
        ELSE [state |-> "returned",
              headers |-> MaskAuthorization(redacted),
              request |-> RequestData(MaskAuthorization(redacted), pd)]

ProcessRequest ==
    /\ outcome.state = "ready"
    /\ LET r == ProcessRequestCall(reqHeaders, requestBody, options)
       IN  /\ outcome' = [state |-> r.state, request |-> r.request]
           /\ reqHeaders' = r.headers
    /\ UNCHANGED <<headersIn, requestBody, options, qvars, pvars, ivars, svars>>

InitRequest ==
    /\ QueueIdle
    /\ PatchIdle
    /\ InstancesIdle
    /\ SetupDone
    /\ \E ct \in CtInputs \cup {"absent"}, auth \in AuthInputs :
          reqHeaders = Headers(ct, auth)
    /\ headersIn = reqHeaders
    /\ requestBody \in BodyInputs
    /\ options \in OptionInputs
    /\ outcome = [state |-> "ready", request |-> NoRequest]

NextRequest == ProcessRequest

SpecRequest == InitRequest /\ [][NextRequest]_vars

-----------------------------------------------------------------------------
\* Two capture-layer instances: metrics() called twice (src/index.js 33-77),
\* each transaction passing the middleware of one of them.

\* Mutant of QueueOwner: queue is declared once, outside metrics().
QueueOwnerShared(i) == 1

\* line 39: let queue = [] is inside metrics(), so the closure returned by each
\* call has an array of its own.
QueueOwner(i) == i

\* The middleware of instance i (lines 41-76) runs for transaction t;
\* transactions are numbered in the order in which they arrive.
InstMiddleware(i, t) ==
    /\ route[t] = 0
    /\ \A u \in RTxn : u < t => route[u] # 0
    /\ route' = [route EXCEPT ![t] = i]
    /\ instListeners' = [instListeners EXCEPT ![t] = Registered(@)]
    /\ UNCHANGED <<instLen, instQueue, instPosts, qvars, pvars, rvars, svars>>

\* res of transaction t emits 'finish': send() of its instance (lines 45-62).
InstFinish(t) ==
    /\ route[t] # 0
    /\ "finish" \in instListeners[t]
    /\ LET i == route[t]
           o == QueueOwner(i)
           q == Push(instQueue[o], t)
       IN  /\ instQueue' = [instQueue EXCEPT ![o] = q]
           /\ instPosts' = IF FlushNeeded(q, instLen[i])
                           THEN [instPosts EXCEPT ![i] = Append(@, NewPost(q))]
                           ELSE instPosts
    /\ instListeners' = [instListeners EXCEPT ![t] = Cleanup(OnceFired(@, "finish"))]
    /\ UNCHANGED <<instLen, route, qvars, pvars, rvars, svars>>

\* res of transaction t emits 'error' or 'close': cleanup() (lines 64-68).
InstAbort(t, e) ==
    /\ route[t] # 0
    /\ e \in {"error", "close"}
    /\ e \in instListeners[t]
    /\ instListeners' = [instListeners EXCEPT ![t] = Cleanup(OnceFired(@, e))]
    /\ UNCHANGED <<instLen, instQueue, instPosts, route, qvars, pvars, rvars, svars>>

\* The response of POST p of instance i arrives (lines 56-58).
InstResponse(i, p) ==
    /\ p \in 1..Len(instPosts[i])
    /\ instPosts[i][p].status = "inflight"
    /\ instPosts' = [instPosts EXCEPT ![i][p].status = "ok"]
    /\ instQueue' = [instQueue EXCEPT ![QueueOwner(i)] = QueueAfterResponse(@)]
    /\ UNCHANGED <<instLen, route, instListeners, qvars, pvars, rvars, svars>>

\* POST p of instance i is rejected.
InstFailure(i, p) ==
    /\ p \in 1..Len(instPosts[i])
    /\ instPosts[i][p].status = "inflight"
    /\ instPosts' = [instPosts EXCEPT ![i][p].status = "failed"]
    /\ UNCHANGED <<instLen, instQueue, route, instListeners, qvars, pvars, rvars, svars>>

InitInstances ==
    /\ QueueIdle
    /\ PatchIdle
    /\ RequestIdle
    /\ SetupDone
    /\ instLen \in [Inst -> 1..MaxBuf]
    /\ instQueue = [i \in Inst |-> <<>>]
    /\ instPosts = [i \in Inst |-> <<>>]
    /\ route = [t \in RTxn |-> 0]
    /\ instListeners = [t \in RTxn |-> {}]

NextInstances ==
    \/ \E i \in Inst, t \in RTxn : InstMiddleware(i, t)
    \/ \E t \in RTxn : InstFinish(t)
    \/ \E t \in RTxn, e \in Signals : InstAbort(t, e)
    \/ \E i \in Inst, p \in 1..NumRouted : InstResponse(i, p)
    \/ \E i \in Inst, p \in 1..NumRouted : InstFailure(i, p)

SpecInstances == InitInstances /\ [][NextInstances]_vars

-----------------------------------------------------------------------------
\* The calls of metrics() and magicLink() (src/index.js 33-41, 100-116).

ApiKeys == {"undefined", "", "key"}
Groups == {"undefined", "fn"}
Users == {"undefined", "null", "user"}
\* redirectPath, in pieces: the default '', a path, an absolute URL.
RedirectPaths == {<<>>, <<"/docs">>, <<"http", "://other/docs">>}
\* options.bufferLength: 0 stands for a value that is not set (or is 0).
OptionLengths == 0..MaxBuf
ConfigLengths == 1..MaxBuf

\* !v is false: v is neither undefined, null nor the empty string.
Provided(v) == v \notin {"undefined", "null", ""}

\* Mutant of MetricsThrows: the grouping function is not checked.
MetricsThrowsKeyOnly(apiKey, group) == ~Provided(apiKey)

\* lines 34-35: the two throws at the top of metrics().
MetricsThrows(apiKey, group) == ~Provided(apiKey) \/ ~Provided(group)

\* lines 101-102: the two throws at the top of magicLink().
MagicLinkThrows(apiKey, user) == ~Provided(apiKey) \/ ~Provided(user)

\* line 37: options.bufferLength || config.bufferLength
BufferLengthOf(optLen, cfgLen) == IF optLen # 0 THEN optLen ELSE cfgLen

\* line 107: redirectPath.startsWith('http')
StartsWithHttp(path) == Len(path) > 0 /\ path[1] = "http"

\* lines 105-109: the base of the link.
BaseUrl(path) == IF StartsWithHttp(path) THEN path ELSE <<"baseUrl">> \o path

\* lines 115-116: the link, with the signed token.
MagicUrl(path, user) == BaseUrl(path) \o <<"?auth_token=", user>>

\* metrics(apiKey, group, options) is called (lines 33-41).
MetricsCall(apiKey, group, optLen, cfgLen) ==
    /\ mw = "none"
    /\ mArgs' = [mArgs EXCEPT !.apiKey = apiKey, !.group = group]
    /\ IF MetricsThrows(apiKey, group)
       THEN /\ mw' = "threw"
            /\ UNCHANGED bufferLength
       ELSE /\ mw' = "returned"
            /\ bufferLength' = BufferLengthOf(optLen, cfgLen)
    /\ UNCHANGED <<queue, patched, listeners, first, posts, enqLog>>
    /\ UNCHANGED <<ml, mlArgs, fetches, mlUrl, pvars, rvars, ivars>>

\* magicLink(apiKey, user, redirectPath) is called (lines 100-104): it rejects,
\* or starts getReadmeData and awaits it.
MagicLinkCall(apiKey, user, path) ==
    /\ ml = "none"
    /\ mlArgs' = [mlArgs EXCEPT !.apiKey = apiKey, !.user = user, !.redirectPath = path]
    /\ IF MagicLinkThrows(apiKey, user)
       THEN /\ ml' = "rejected"
            /\ UNCHANGED fetches
       ELSE /\ ml' = "fetching"
            /\ fetches' = fetches + 1
    /\ UNCHANGED <<mw, mArgs, mlUrl, qvars, pvars, rvars, ivars>>

\* getReadmeData resolves: the link is built and returned (lines 105-117).
FetchResolved ==
    /\ ml = "fetching"
    /\ ml' = "resolved"
    /\ mlUrl' = MagicUrl(mlArgs.redirectPath, mlArgs.user)
    /\ UNCHANGED <<mw, mArgs, mlArgs, fetches, qvars, pvars, rvars, ivars>>

\* getReadmeData rejects: so does magicLink (line 104).
FetchRejected ==
    /\ ml = "fetching"
    /\ ml' = "rejected"
    /\ UNCHANGED <<mw, mArgs, mlArgs, fetches, mlUrl, qvars, pvars, rvars, ivars>>

\* The middleware exists only as the value metrics() returned (line 41).
Returned == mw = "returned"

InitSetup ==
    /\ bufferLength = 0
    /\ queue = <<>>
    /\ patched = [t \in Txn |-> 0]
    /\ listeners = [t \in Txn |-> {}]
    /\ first = [t \in Txn |-> "none"]
    /\ posts = <<>>
    /\ enqLog = <<>>
    /\ PatchIdle
    /\ RequestIdle
    /\ InstancesIdle
    /\ mw = "none"
    /\ mArgs = NoArgs
    /\ ml = "none"
    /\ mlArgs = NoArgs
    /\ fetches = 0
    /\ mlUrl = <<>>

NextSetup ==
    \/ \E k \in ApiKeys, g \in Groups, o \in OptionLengths, c \in ConfigLengths :
          MetricsCall(k, g, o, c)
    \/ \E k \in ApiKeys, u \in Users, r \in RedirectPaths : MagicLinkCall(k, u, r)
    \/ FetchResolved
    \/ FetchRejected
    \/ \E t \in 1..SetupTxn : Returned /\ Middleware(t)
    \/ \E t \in 1..SetupTxn : Returned /\ Finish(t)
    \/ \E t \in 1..SetupTxn, e \in Signals : Returned /\ Abort(t, e)
    \/ \E t \in 1..SetupTxn, e \in Signals : Returned /\ LateSignal(t, e)
    \/ \E p \in 1..SetupTxn : Returned /\ PostResponse(p)
    \/ \E p \in 1..SetupTxn : Returned /\ PostFailure(p)

SpecSetup == InitSetup /\ [][NextSetup]_vars

-----------------------------------------------------------------------------
\* Helpers of the properties.
Count(s, x) == Cardinality({i \in 1..Len(s) : s[i] = x})
Posted(r) == \E p \in 1..Len(posts) : r \in Range(posts[p].body)

\* C1: starting from an empty pending sequence with threshold N = bufferLength,
\* while fewer than N transactions have finished no POST has been started, and
\* once exactly N have finished exactly one POST has been started, whose body
\* is exactly those N records in push order.
C1_ThresholdFlush ==
    /\ Len(enqLog) < bufferLength => posts = <<>>
    /\ Len(enqLog) = bufferLength =>
          /\ Len(posts) = 1
          /\ posts[1].body = enqLog

C1_Witness ==
    /\ bufferLength >= 2
    /\ Len(enqLog) = bufferLength
    /\ Len(posts) = 1

\* C2 (as claimed): the step that starts a POST leaves the pending sequence
\* empty, and the pending sequence never grows beyond bufferLength.
C2_EmptyAfterFlush ==
    [][ /\ Len(posts') > Len(posts) => queue' = <<>>
        /\ Len(queue') <= bufferLength ]_vars

\* C3 (as claimed): no record is in the body of two POSTs.
C3_NoDuplicateDelivery ==
    \A i, j \in 1..Len(posts) :
        i # j => Range(posts[i].body) \cap Range(posts[j].body) = {}

\* C4 (as claimed): with every POST succeeding, a record that has left the
\* pending sequence was in the body of some POST.
C4_NoDropBySwap ==
    (\A p \in 1..Len(posts) : posts[p].status # "failed")
        => \A r \in Range(enqLog) : r \in Range(queue) \/ Posted(r)

\* C5 (as claimed): the records of a failed POST are not in the pending
\* sequence and are in the body of no later POST.
C5_FailedFlushLost ==
    \A i \in 1..Len(posts) :
        posts[i].status = "failed" =>
            /\ Range(posts[i].body) \cap Range(queue) = {}
            /\ \A j \in (i + 1)..Len(posts) :
                   Range(posts[j].body) \cap Range(posts[i].body) = {}

\* C6: for each transaction at most one record is enqueued, and once its first
\* terminal signal has been emitted none of the middleware's three listeners
\* is registered any more, so neither send nor cleanup can run again for it.
C6_FinalizeOnce ==
    \A t \in Txn :
        /\ Count(enqLog, t) <= 1
        /\ first[t] # "none" =>
              /\ listeners[t] = {}
              /\ ~ ENABLED Finish(t)
              /\ \A e \in Signals : ~ ENABLED Abort(t, e)

C6_Witness ==
    \E t \in Txn :
        /\ first[t] = "finish"
        /\ Count(enqLog, t) = 1
        /\ ENABLED LateSignal(t, "close")
        /\ ENABLED LateSignal(t, "finish")

\* C7: a transaction has a record enqueued only if finish was its first
\* terminal signal; after error or close came first, send is no longer
\* registered for finish, and the transaction has no record in the pending
\* sequence or in any POST.
C7_RecordOnlyOnFinishFirst ==
    \A t \in Txn :
        /\ t \in Range(enqLog) => first[t] = "finish"
        /\ first[t] \in {"error", "close"} =>
              /\ "finish" \notin listeners[t]
              /\ t \notin Range(queue)
              /\ ~ Posted(t)

C7_Witness ==
    \E t, u \in Txn :
        /\ first[t] \in {"error", "close"}
        /\ ENABLED LateSignal(t, "finish")
        /\ first[u] = "finish"
        /\ Posted(u)

RECURSIVE Concat(_)
\* The chunks of a sequence of calls, concatenated in call order.
Concat(calls) ==
    IF calls = <<>> THEN <<>>
    ELSE (IF Head(calls).chunk.kind = "string" THEN Head(calls).chunk.text ELSE <<>>)
         \o Concat(Tail(calls))

C9_SameReturn ==
    (wrappers >= 1 /\ appCalls # <<>>) => patchedRet = origRet

\* C10 (as claimed): processRequest never throws, whatever the content-type
\* header and the request body are.
C10_NeverThrows == outcome.state # "threw"

\* The entries of the emitted record's header list named authorization.
AuthEntries == {e \in outcome.request.headers : e.name = "authorization"}

\* C11 (as claimed): whenever the request carries an authorization header and
\* a record is returned, the record's authorization entry is a masked value
\* and not the value of the header as received.
C11_AlwaysMasked ==
    (outcome.state = "returned" /\ "authorization" \in DOMAIN headersIn) =>
        /\ AuthEntries # {}
        /\ \A e \in AuthEntries :
              e.value.masked /\ e.value # headersIn["authorization"]

\* C11 (amended): the same for a request whose authorization header is not
\* the empty string, under every redaction configuration.
C11_NonEmptyMasked ==
    (/\ outcome.state = "returned"
     /\ "authorization" \in DOMAIN headersIn
     /\ headersIn["authorization"].text # "") =>
        /\ AuthEntries # {}
        /\ \A e \in AuthEntries :
              e.value.masked /\ e.value # headersIn["authorization"]

C11_Witness ==
    /\ outcome.state = "returned"
    /\ "authorization" \in DOMAIN headersIn
    /\ headersIn["authorization"].text = AuthText
    /\ "authorization" \in Denylist(options).names
    /\ Allowlist(options).given
    /\ \E e \in AuthEntries : e.value.masked

\* The redaction configuration as the options give it.
DenyOn == options.denylist.given \/ options.blacklist.given
AllowOn == options.allowlist.given \/ options.whitelist.given
DenyNames ==
    IF options.denylist.given THEN options.denylist.names ELSE options.blacklist.names
AllowNames ==
    IF options.allowlist.given THEN options.allowlist.names ELSE options.whitelist.names

\* The named values of the emitted record: its headers and the fields of its
\* body (postData.params, or the mapping serialized into postData.text).
EmittedBodyFields ==
    IF outcome.request.postData.hasParams THEN outcome.request.postData.params
    ELSE IF outcome.request.postData.text.kind = "json"
    THEN ObjectToArray(outcome.request.postData.text.obj)
    ELSE {}
EmittedFields == outcome.request.headers \cup EmittedBodyFields
IsRedacted(v) == v.text = "[REDACTED]"

\* C12: in a returned record, with a denylist (denylist or blacklist)
\* configured a header or body field is redacted exactly when the denylist
\* names it, whether or not an allowlist is configured too; with only an
\* allowlist (allowlist or whitelist) configured it is redacted exactly when
\* the allowlist does not name it; with neither, nothing is redacted.
C12_DenylistWins ==
    outcome.state = "returned" =>
        \A e \in EmittedFields :
            IsRedacted(e.value) <=>
                (IF DenyOn THEN e.name \in DenyNames
                 ELSE IF AllowOn THEN e.name \notin AllowNames
                 ELSE FALSE)

C12_Witness ==
    /\ outcome.state = "returned"
    /\ options.blacklist = Given({"authorization"})
    /\ ~ options.denylist.given
    /\ options.whitelist = Given({"a", "host"})
    /\ \E e \in outcome.request.headers :
          e.name = "content-type" /\ ~ IsRedacted(e.value)
    /\ \E e \in outcome.request.headers :
          e.name = "authorization" /\ IsRedacted(e.value)
    /\ \E e \in EmittedBodyFields : e.name = "b" /\ ~ IsRedacted(e.value)

\* The content-type header as received cannot be parsed into a MIME type.
NoMimeIn ==
    \/ "content-type" \notin DOMAIN headersIn
    \/ ~ ContentTypeParse(headersIn["content-type"].text).ok

\* C13: a returned record has the postData key exactly when a non-empty MIME
\* type was resolved from the content-type header; with the header absent or
\* unparseable the key is absent, whatever the body is.
C13_PostDataIffMime ==
    outcome.state = "returned" =>
        /\ outcome.request.hasPostData <=> MimeType(headersIn) # ""
        /\ NoMimeIn => ~ outcome.request.hasPostData
        /\ outcome.request.hasPostData =>
              outcome.request.postData.mimeType = MimeType(headersIn)

C13_Witness ==
    /\ outcome.state = "returned"
    /\ "content-type" \in DOMAIN headersIn
    /\ headersIn["content-type"].text = "garbage"
    /\ requestBody.kind = "object"
    /\ ~ outcome.request.hasPostData

\* The MIME type of the request is present and neither form nor JSON.
OtherMimeIn ==
    /\ MimeType(headersIn) # ""
    /\ MimeType(headersIn) # FormMime
    /\ ~ IsApplicationJson(MimeType(headersIn))

\* C14: called with a circular body and a MIME type that is present and
\* neither form-urlencoded nor JSON, processRequest does not throw and returns
\* postData with that MIME type and the placeholder as text.
C14_CircularPlaceholder ==
    (outcome.state \in {"returned", "threw"}
        /\ requestBody.kind = "circular" /\ OtherMimeIn) =>
        /\ outcome.state = "returned"
        /\ outcome.request.hasPostData
        /\ outcome.request.postData.mimeType = MimeType(headersIn)
        /\ outcome.request.postData.hasText
        /\ outcome.request.postData.text.kind = "placeholder"
        /\ outcome.request.postData.text.text =
              "[ReadMe is unable to handle circular JSON. Please contact support if you have any questions.]"

C14_Witness ==
    /\ outcome.state = "returned"
    /\ requestBody.kind = "circular"
    /\ MimeType(headersIn) = "text/plain"
    /\ outcome.request.postData.text.kind = "placeholder"

\* C19 (as claimed): after the call req.headers holds the keys and values it
\* held before.
C19_RequestUnchanged ==
    outcome.state \in {"returned", "threw"} => reqHeaders = headersIn

\* The place of transaction t in the order in which finish events fired.
FinishPos(t) == CHOOSE k \in 1..Len(enqLog) : enqLog[k] = t
InFinishOrder(s) ==
    /\ Range(s) \subseteq Range(enqLog)
    /\ \A i, j \in 1..Len(s) : i < j => FinishPos(s[i]) < FinishPos(s[j])

\* C16: the records of the pending sequence and of every POST body are in the
\* order in which the finish events of their transactions fired, whatever the
\* order in which the requests arrived.
C16_CompletionOrder ==
    /\ InFinishOrder(queue)
    /\ \A p \in 1..Len(posts) : InFinishOrder(posts[p].body)

\* Transactions are numbered by arrival: here a later arrival finished first.
C16_Witness ==
    /\ \E i, j \in 1..Len(queue) : i < j /\ queue[i] > queue[j]
    /\ \E p \in 1..Len(posts) :
          \E i, j \in 1..Len(posts[p].body) :
              i < j /\ posts[p].body[i] > posts[p].body[j]

\* C17 (as claimed): with a threshold of 1 every finished transaction has
\* started exactly one POST, whose body is that transaction's record alone.
C17_ImmediatePerTransaction ==
    bufferLength = 1 =>
        /\ Len(posts) = Len(enqLog)
        /\ \A p \in 1..Len(posts) : posts[p].body = <<enqLog[p]>>

\* C20 (as claimed): on a response that passed patchResponse more than once,
\* res._body is still the concatenation of the chunks the application wrote,
\* each once, and the original write/end received each call once.
C20_DoublePatchOnce ==
    wrappers >= 2 =>
        /\ resBody = Concat(appCalls)
        /\ origCalls = appCalls

\* A step in which instance i acts: a terminal signal of one of its
\* transactions is handled, or one of its POSTs is started or completed.
ActsUnder(i) ==
    \/ \E t \in RTxn : route[t] = i /\ instListeners'[t] # instListeners[t]
    \/ instPosts'[i] # instPosts[i]

\* The records in s all belong to transactions of instance i.
OwnRecords(i, s) == \A k \in 1..Len(s) : route[s[k]] = i

\* C18: a step of one instance (a finish, error or close of one of its
\* transactions, a POST response) leaves the other instance's pending sequence
\* and POSTs as they were, and the pending sequence and POST bodies of an
\* instance hold records of its own transactions only.
C18_SeparateQueues ==
    [][ /\ \A i, j \in Inst :
              (i # j /\ ActsUnder(i)) =>
                  /\ instQueue'[j] = instQueue[j]
                  /\ instPosts'[j] = instPosts[j]
        /\ \A i \in Inst :
              /\ OwnRecords(i, instQueue[i])'
              /\ \A p \in 1..Len(instPosts'[i]) : OwnRecords(i, instPosts[i][p].body)'
      ]_vars

C18_Witness ==
    /\ instLen[1] = 2
    /\ Len(instQueue[1]) = 1
    /\ instPosts[1] = <<>>
    /\ instLen[2] = 1
    /\ Len(instPosts[2]) = 2
    /\ instPosts[2][1].status = "ok"
    /\ instQueue[2] # <<>>

\* Nothing of the capture layer has happened: no response patched, no listener
\* registered, nothing queued or posted, no threshold taken.
NoCaptureEffect ==
    /\ \A t \in Txn : patched[t] = 0 /\ listeners[t] = {} /\ first[t] = "none"
    /\ queue = <<>>
    /\ posts = <<>>
    /\ enqLog = <<>>
    /\ bufferLength = 0

\* C15: after metrics() was called without an API key or without a group
\* function it has thrown and nothing of the capture layer has happened; after
\* magicLink() was called without an API key or without a user it has failed
\* and no fetch of the remote data was started.
C15_ConfigErrorsFirst ==
    /\ (mw # "none" /\ (mArgs.apiKey = "undefined" \/ mArgs.group = "undefined"))
          => (mw = "threw" /\ NoCaptureEffect)
    /\ (ml # "none" /\ (mlArgs.apiKey = "undefined" \/ mlArgs.user = "undefined"))
          => (ml = "rejected" /\ fetches = 0)

C15_Witness ==
    /\ mw = "threw"
    /\ mArgs.apiKey = "key"
    /\ mArgs.group = "undefined"
    /\ ml = "rejected"
    /\ mlArgs.apiKey = "key"
    /\ mlArgs.user = "undefined"
    /\ fetches = 0

=============================================================================
